---- MODULE Spec2Model ----
(***************************************************************************)
(* LedgerFlow bridge command run_simulation, in its two builds:            *)
(*   "file"   : src-tauri 2/src/main.rs  (file-relay transport: config,    *)
(*              catalog and output travel through three files of the      *)
(*              temp directory)                                            *)
(*   "inline" : src-tauri/src/main.rs    (inline-argument transport: JSON  *)
(*              passed as arguments, reply read from standard output)      *)
(* Every invocation of the command is a process; the engine child process  *)
(* it launches is a second thread of control whose file accesses           *)
(* interleave with everything else.                                        *)
(***************************************************************************)
EXTENDS Integers, Sequences, FiniteSets, TLC

\* ------------------------------------------------------------------ bounds
NInv == 2          \* invocations the caller may have in flight at once
MaxVal == 2        \* numeric request fields range over 0..MaxVal

Procs == 1..NInv
Vals == 0..MaxVal

VARIABLES
    transport,    \* which build runs: "file" or "inline"
    scriptExists, \* whether ../backend/src/engine.py exists
    config,       \* config[i]: the SimulationConfig argument of invocation i
    engine,       \* engine[i]: what the engine run of invocation i does (black box)
    pc,           \* pc[i]: position of invocation i inside run_simulation
    files,        \* the three fixed paths of the temp directory
    epc,          \* epc[i]: position of the child process of invocation i
    cfgRead,      \* cfgRead[i]: the config the child of i was given / read
    catRead,      \* catRead[i]: the catalog the child of i was given / read
    output,       \* output[i]: std::process::Output the child of invocation i produced
    outputJson,   \* outputJson[i]: what invocation i read from the output path
    launched,     \* launched[i]: child processes spawned by invocation i
    created,      \* created[i]: temp paths written on behalf of invocation i
    delivered,    \* delivered[i]: outcomes handed to the caller of invocation i
    sequential,   \* whether the caller awaits each invocation before the next
    cancelRequested \* cancelRequested[i]: the caller has asked to cancel invocation i

vars == <<transport, scriptExists, config, engine, pc, files, epc, cfgRead,
          catRead, output, outputJson, launched, created, delivered, sequential,
          cancelRequested>>

\* --------------------------------------------------------------- constants
ScriptPath == "../backend/src/engine.py"
\* temp_dir.join(...): the three paths invocation i uses
config_path(i) == "ledgerflow_config.json"
catalog_path(i) == "ledgerflow_catalog.json"
output_path(i) == "ledgerflow_output.json"
PathsOf(i) == {config_path(i), catalog_path(i), output_path(i)}
Paths == UNION {PathsOf(i) : i \in Procs}

None == <<>>
Some(v) == <<v>>
Absent == [exists |-> FALSE]
Content(d, w) == [exists |-> TRUE, data |-> d, writer |-> w]

\* Result<SimulationResult, String>
Ok(v) == [tag |-> "Ok", value |-> v]
Err(m) == [tag |-> "Err", msg |-> m]

\* Error strings: format!("{prefix}{detail}")
Msg(text, detail) == [text |-> text, detail |-> detail]

\* ------------------------------------------------------------ the request
\* The numeric and date fields of SimulationConfig; the others (tags,
\* options) are carried to the engine untouched. Dates are day numbers,
\* customer_repeat_rate is an Option.
ValidRequest ==
    [revenue_target |-> 1, min_invoice_amount |-> 1, max_invoice_amount |-> 2,
     min_items |-> 1, max_items |-> 2,
     start_date |-> 1, end_date |-> 2, customer_repeat_rate |-> None]

\* every combination of the five fields the validation block reads
Requests ==
    {[ValidRequest EXCEPT !.revenue_target = a, !.min_invoice_amount = b,
                          !.max_invoice_amount = c, !.min_items = d, !.max_items = e] :
        a \in Vals, b \in Vals, c \in Vals, d \in Vals, e \in Vals}

\* every combination of the fields the validation block does not read
Dates == 1..MaxVal
Rates == {None} \cup {Some(v) : v \in Vals}
BoundRequests ==
    {[ValidRequest EXCEPT !.start_date = a, !.end_date = b, !.customer_repeat_rate = r] :
        a \in Dates, b \in Dates, r \in Rates}

\* serde_json::to_string: a JSON object holding the fields of the value
to_string(v) == [kind |-> "json", obj |-> v]

\* validate with the last two checks in the wrong order
validate_swapped(c) ==
    IF c.revenue_target <= 0
        THEN Some("Revenue target must be positive")
    ELSE IF c.min_invoice_amount <= 0 \/ c.max_invoice_amount <= 0
        THEN Some("Invoice amounts must be positive")
    ELSE IF c.min_items <= 0 \/ c.max_items <= 0
        THEN Some("Item counts must be positive")
    ELSE IF c.min_items > c.max_items
        THEN Some("Minimum items cannot exceed maximum")
    ELSE IF c.min_invoice_amount > c.max_invoice_amount
        THEN Some("Minimum invoice amount cannot exceed maximum")
    ELSE None

\* The validation block of the inline build: None when every check passes,
\* otherwise the message of the first check that fails.
validate(c) ==
    IF c.revenue_target <= 0
        THEN Some("Revenue target must be positive")
    ELSE IF c.min_invoice_amount <= 0 \/ c.max_invoice_amount <= 0
        THEN Some("Invoice amounts must be positive")
    ELSE IF c.min_items <= 0 \/ c.max_items <= 0
        THEN Some("Item counts must be positive")
    ELSE IF c.min_invoice_amount > c.max_invoice_amount
        THEN Some("Minimum invoice amount cannot exceed maximum")
    ELSE IF c.min_items > c.max_items
        THEN Some("Minimum items cannot exceed maximum")
    ELSE None

\* ------------------------------------------------------- the engine reply
\* A payload is empty, text that is not JSON, or a JSON object (a function
\* from field names to values).
Empty == [kind |-> "empty"]
Garbage == [kind |-> "text"]
Json(o) == [kind |-> "json", obj |-> o]

Opt(o, f) == IF f \in DOMAIN o THEN Some(o[f]) ELSE None
Dflt(o, f, d) == IF f \in DOMAIN o THEN o[f] ELSE d

\* #[derive(Deserialize)] struct InvoiceItem of the inline build
InvoiceItemRequired == {"rate", "amount"}
InvoiceItem(o) ==
    [name |-> Dflt(o, "name", ""), item |-> Dflt(o, "item", ""),
     quantity |-> Dflt(o, "quantity", 0), qty |-> Dflt(o, "qty", 0),
     rate |-> o.rate, amount |-> o.amount,
     sku |-> Opt(o, "sku"), tax |-> Opt(o, "tax"), total |-> Opt(o, "total")]

\* #[derive(Deserialize)] struct Invoice of the inline build
InvoiceRequired ==
    {"invoice_type", "invoice_number", "date", "customer", "items", "subtotal", "total"}
InvoiceDecodes(o) ==
    /\ InvoiceRequired \subseteq DOMAIN o
    /\ \A k \in 1..Len(o.items) : InvoiceItemRequired \subseteq DOMAIN o.items[k]
Invoice(o) ==
    [invoice_type |-> o.invoice_type, invoice_number |-> o.invoice_number,
     date |-> o.date, customer |-> o.customer,
     items |-> [k \in 1..Len(o.items) |-> InvoiceItem(o.items[k])],
     subtotal |-> o.subtotal, total |-> o.total,
     payment_terms |-> Opt(o, "payment_terms"),
     template_applied |-> Opt(o, "template_applied")]

\* struct InvoiceItem / Invoice of the file build: every field is required
InvoiceItemRequired2 == {"sku", "name", "qty", "rate", "tax", "total"}
InvoiceItem2(o) ==
    [sku |-> o.sku, name |-> o.name, qty |-> o.qty, rate |-> o.rate,
     tax |-> o.tax, total |-> o.total]
InvoiceRequired2 ==
    {"invoice_id", "date", "customer_name", "items", "tax_breakdown", "grand_total"}
InvoiceDecodes2(o) ==
    /\ InvoiceRequired2 \subseteq DOMAIN o
    /\ \A k \in 1..Len(o.items) : InvoiceItemRequired2 \subseteq DOMAIN o.items[k]
Invoice2(o) ==
    [invoice_id |-> o.invoice_id, date |-> o.date, customer_name |-> o.customer_name,
     items |-> [k \in 1..Len(o.items) |-> InvoiceItem2(o.items[k])],
     tax_breakdown |-> o.tax_breakdown, grand_total |-> o.grand_total]

\* struct SimulationResult (both builds): invoices and status required,
\* error an Option
SimulationResultRequired == {"invoices", "status"}

\* serde_json::from_str::<SimulationResult> of the inline build
from_str(p) ==
    IF p.kind # "json" THEN [ok |-> FALSE]
    ELSE IF ~ (SimulationResultRequired \subseteq DOMAIN p.obj) THEN [ok |-> FALSE]
    ELSE IF \E k \in 1..Len(p.obj.invoices) : ~ InvoiceDecodes(p.obj.invoices[k])
        THEN [ok |-> FALSE]
    ELSE [ok |-> TRUE,
          value |-> [invoices |-> [k \in 1..Len(p.obj.invoices) |->
                                      Invoice(p.obj.invoices[k])],
                     status |-> p.obj.status,
                     error |-> Opt(p.obj, "error")]]

\* serde_json::from_str::<SimulationResult> of the file build
from_str2(p) ==
    IF p.kind # "json" THEN [ok |-> FALSE]
    ELSE IF ~ (SimulationResultRequired \subseteq DOMAIN p.obj) THEN [ok |-> FALSE]
    ELSE IF \E k \in 1..Len(p.obj.invoices) : ~ InvoiceDecodes2(p.obj.invoices[k])
        THEN [ok |-> FALSE]
    ELSE [ok |-> TRUE,
          value |-> [invoices |-> [k \in 1..Len(p.obj.invoices) |->
                                      Invoice2(p.obj.invoices[k])],
                     status |-> p.obj.status,
                     error |-> Opt(p.obj, "error")]]

\* ------------------------------------------------------------ the catalog
\* The catalog argument is passed through untouched; one 3-item catalog.
Catalog == <<"SKU1", "SKU2", "SKU3">>

\* the exit status left unchecked
success_unchecked(out) == TRUE

\* ExitStatus::success()
success(out) == out.code = 0

\* ------------------------------------------------------------------ steps
NoOutput == [code |-> 0, stdout |-> Empty, stderr |-> ""]

\* run_simulation returns: the caller receives the outcome, the local
\* output_json dies.
Return(i, outcome) ==
    /\ pc' = [pc EXCEPT ![i] = "done"]
    /\ delivered' = [delivered EXCEPT ![i] = Append(@, outcome)]
    /\ outputJson' = [outputJson EXCEPT ![i] = None]
    /\ UNCHANGED output

\* run_simulation goes on to its next statement.
Goto(i, label) ==
    /\ pc' = [pc EXCEPT ![i] = label]
    /\ UNCHANGED <<delivered, output, outputJson>>

\* The caller invokes the command; serialising config and catalog cannot
\* fail for these types.
Call(i) ==
    /\ pc[i] = "idle"
    /\ sequential => \A j \in Procs : pc[j] \in {"unused", "idle", "done"}
    /\ Goto(i, IF transport = "file" THEN "write_config" ELSE "validate")
    /\ UNCHANGED <<transport, scriptExists, sequential, cancelRequested, config, engine, files, epc, cfgRead,
                   catRead, launched, created>>

\* ----- file build: src-tauri 2/src/main.rs
\* fs::write(&config_path, config_json)?
WriteConfig(i) ==
    /\ pc[i] = "write_config"
    /\ \/ /\ files' = [files EXCEPT ![config_path(i)] = Content(to_string(config[i]), i)]
          /\ created' = [created EXCEPT ![i] = @ \cup {config_path(i)}]
          /\ Goto(i, "write_catalog")
       \/ /\ Return(i, Err(Msg("Failed to write config file: ", "io error")))
          /\ UNCHANGED <<files, created>>
    /\ UNCHANGED <<transport, scriptExists, sequential, cancelRequested, config, engine, epc, cfgRead, catRead,
                   launched>>

\* fs::write(&catalog_path, catalog_json)?
WriteCatalog(i) ==
    /\ pc[i] = "write_catalog"
    /\ \/ /\ files' = [files EXCEPT ![catalog_path(i)] = Content(to_string(Catalog), i)]
          /\ created' = [created EXCEPT ![i] = @ \cup {catalog_path(i)}]
          /\ Goto(i, "launch")
       \/ /\ Return(i, Err(Msg("Failed to write catalog file: ", "io error")))
          /\ UNCHANGED <<files, created>>
    /\ UNCHANGED <<transport, scriptExists, sequential, cancelRequested, config, engine, epc, cfgRead, catRead,
                   launched>>

\* Command::new("python").arg(script_path)...output(): the spawn
LaunchFile(i) ==
    /\ pc[i] = "launch"
    /\ transport = "file"
    /\ \/ /\ launched' = [launched EXCEPT ![i] = @ + 1]
          /\ epc' = [epc EXCEPT ![i] = "read_config"]
          /\ Goto(i, "wait")
       \/ /\ Return(i, Err(Msg("Failed to execute Python script: ", "io error")))
          /\ UNCHANGED <<launched, epc>>
    /\ UNCHANGED <<transport, scriptExists, sequential, cancelRequested, config, engine, files, cfgRead, catRead,
                   created>>

\* The child exits: its exit status, stdout and stderr become available to
\* the parent, its memory is gone.
Exit(i, code, stdout, stderr) ==
    /\ epc' = [epc EXCEPT ![i] = "exited"]
    /\ output' = [output EXCEPT ![i] = [code |-> code, stdout |-> stdout, stderr |-> stderr]]
    /\ cfgRead' = [cfgRead EXCEPT ![i] = None]
    /\ catRead' = [catRead EXCEPT ![i] = None]

\* python <script> --config <path>: the interpreter opens the script, the
\* script opens the config path.
EngineReadConfig(i) ==
    /\ epc[i] = "read_config"
    /\ IF ~ scriptExists
         THEN Exit(i, 2, Empty, "can't open file")
       ELSE IF ~ files[config_path(i)].exists
         THEN Exit(i, 1, Empty, "No such file")
       ELSE /\ cfgRead' = [cfgRead EXCEPT ![i] = Some(files[config_path(i)])]
            /\ epc' = [epc EXCEPT ![i] = "read_catalog"]
            /\ UNCHANGED <<output, catRead>>
    /\ UNCHANGED <<transport, scriptExists, sequential, cancelRequested, config, engine, pc, files, outputJson,
                   launched, created, delivered>>

\* --catalog <path>
EngineReadCatalog(i) ==
    /\ epc[i] = "read_catalog"
    /\ IF ~ files[catalog_path(i)].exists
         THEN Exit(i, 1, Empty, "No such file")
       ELSE /\ catRead' = [catRead EXCEPT ![i] = Some(files[catalog_path(i)])]
            /\ epc' = [epc EXCEPT ![i] = "write_output"]
            /\ UNCHANGED <<output, cfgRead>>
    /\ UNCHANGED <<transport, scriptExists, sequential, cancelRequested, config, engine, pc, files, outputJson,
                   launched, created, delivered>>

\* --output <path>: the engine writes its reply (if it writes one) and exits.
EngineWriteOutput(i) ==
    /\ epc[i] = "write_output"
    /\ ~ engine[i].hangs
    /\ IF engine[i].body = Empty
         THEN UNCHANGED <<files, created>>
       ELSE /\ files' = [files EXCEPT ![output_path(i)] = Content(engine[i].body, i)]
            /\ created' = [created EXCEPT ![i] = @ \cup {output_path(i)}]
    /\ Exit(i, engine[i].code, Empty, engine[i].stderr)
    /\ UNCHANGED <<transport, scriptExists, sequential, cancelRequested, config, engine, pc, outputJson, launched,
                   delivered>>

\* the child is spawned and not waited for
WaitFile_nowait(i) ==
    /\ pc[i] = "wait"
    /\ transport = "file"
    /\ IF ~ success(output[i])
         THEN Return(i, Err(Msg("Python script failed: ", output[i].stderr)))
       ELSE Goto(i, "read_output")
    /\ UNCHANGED <<transport, scriptExists, sequential, cancelRequested, config, engine, files, epc, cfgRead,
                   catRead, launched, created>>

\* .output() returns once the child has exited; if !output.status.success()
WaitFile(i) ==
    /\ pc[i] = "wait"
    /\ transport = "file"
    /\ epc[i] = "exited"
    /\ IF ~ success(output[i])
         THEN Return(i, Err(Msg("Python script failed: ", output[i].stderr)))
       ELSE Goto(i, "read_output")
    /\ UNCHANGED <<transport, scriptExists, sequential, cancelRequested, config, engine, files, epc, cfgRead,
                   catRead, launched, created>>

\* fs::read_to_string(&output_path)?
ReadOutput(i) ==
    /\ pc[i] = "read_output"
    /\ IF ~ files[output_path(i)].exists
         THEN Return(i, Err(Msg("Failed to read output file: ", "No such file")))
       ELSE /\ outputJson' = [outputJson EXCEPT ![i] = Some(files[output_path(i)])]
            /\ pc' = [pc EXCEPT ![i] = "parse"]
            /\ UNCHANGED <<delivered, output>>
    /\ UNCHANGED <<transport, scriptExists, sequential, cancelRequested, config, engine, files, epc, cfgRead,
                   catRead, launched, created>>

\* serde_json::from_str(&output_json)?
Parse(i) ==
    /\ pc[i] = "parse"
    /\ IF ~ from_str2(outputJson[i][1].data).ok
         THEN Return(i, Err(Msg("Failed to parse output JSON: ", "serde error")))
       ELSE Goto(i, "remove_config")
    /\ UNCHANGED <<transport, scriptExists, sequential, cancelRequested, config, engine, files, epc, cfgRead,
                   catRead, launched, created>>

\* let _ = fs::remove_file(&config_path);
RemoveConfig(i) ==
    /\ pc[i] = "remove_config"
    /\ files' = [files EXCEPT ![config_path(i)] = Absent]
    /\ Goto(i, "remove_catalog")
    /\ UNCHANGED <<transport, scriptExists, sequential, cancelRequested, config, engine, epc, cfgRead, catRead,
                   launched, created>>

\* let _ = fs::remove_file(&catalog_path);
RemoveCatalog(i) ==
    /\ pc[i] = "remove_catalog"
    /\ files' = [files EXCEPT ![catalog_path(i)] = Absent]
    /\ Goto(i, "remove_output")
    /\ UNCHANGED <<transport, scriptExists, sequential, cancelRequested, config, engine, epc, cfgRead, catRead,
                   launched, created>>

\* let _ = fs::remove_file(&output_path); Ok(result)
RemoveOutput(i) ==
    /\ pc[i] = "remove_output"
    /\ files' = [files EXCEPT ![output_path(i)] = Absent]
    /\ Return(i, Ok(from_str2(outputJson[i][1].data).value))
    /\ UNCHANGED <<transport, scriptExists, sequential, cancelRequested, config, engine, epc, cfgRead, catRead,
                   launched, created>>

\* ----- inline build: src-tauri/src/main.rs
\* the request is validated only once the engine script has been found
Validate_late(i) ==
    /\ pc[i] = "validate"
    /\ IF ~ scriptExists
         THEN Return(i, Err(Msg("Python engine not found at: ", ScriptPath)))
       ELSE IF validate(config[i]) # None
         THEN Return(i, Err(Msg(validate(config[i])[1], "")))
       ELSE Goto(i, "check_script")
    /\ UNCHANGED <<transport, scriptExists, sequential, cancelRequested, config, engine, files, epc, cfgRead,
                   catRead, launched, created>>

\* Validate required fields
Validate(i) ==
    /\ pc[i] = "validate"
    /\ IF validate(config[i]) # None
         THEN Return(i, Err(Msg(validate(config[i])[1], "")))
       ELSE Goto(i, "check_script")
    /\ UNCHANGED <<transport, scriptExists, sequential, cancelRequested, config, engine, files, epc, cfgRead,
                   catRead, launched, created>>

\* if !script_path.exists()
CheckScript(i) ==
    /\ pc[i] = "check_script"
    /\ IF ~ scriptExists
         THEN Return(i, Err(Msg("Python engine not found at: ", ScriptPath)))
       ELSE Goto(i, "launch")
    /\ UNCHANGED <<transport, scriptExists, sequential, cancelRequested, config, engine, files, epc, cfgRead,
                   catRead, launched, created>>

\* Command::new("python3")...arg(&config_json)...arg(&catalog_json).output():
\* the spawn; the child receives both payloads as arguments
LaunchInline(i) ==
    /\ pc[i] = "launch"
    /\ transport = "inline"
    /\ \/ /\ launched' = [launched EXCEPT ![i] = @ + 1]
          /\ cfgRead' = [cfgRead EXCEPT ![i] = Some(Content(to_string(config[i]), i))]
          /\ catRead' = [catRead EXCEPT ![i] = Some(Content(to_string(Catalog), i))]
          /\ epc' = [epc EXCEPT ![i] = "run"]
          /\ Goto(i, "wait")
       \/ /\ Return(i, Err(Msg("Failed to execute Python engine: ", "io error")))
          /\ UNCHANGED <<launched, epc, cfgRead, catRead>>
    /\ UNCHANGED <<transport, scriptExists, sequential, cancelRequested, config, engine, files, created>>

\* The engine computes, prints its reply on standard output and exits.
EngineRun(i) ==
    /\ epc[i] = "run"
    /\ ~ engine[i].hangs
    /\ Exit(i, engine[i].code, engine[i].body, engine[i].stderr)
    /\ UNCHANGED <<transport, scriptExists, sequential, cancelRequested, config, engine, pc, files, outputJson,
                   launched, created, delivered>>

\* a failed run is retried: the engine is launched again
WaitInline_retry(i) ==
    /\ pc[i] = "wait"
    /\ transport = "inline"
    /\ epc[i] = "exited"
    /\ IF ~ success(output[i]) THEN Goto(i, "launch") ELSE Goto(i, "decode")
    /\ UNCHANGED <<transport, scriptExists, sequential, cancelRequested, config, engine, files, epc, cfgRead,
                   catRead, launched, created>>

\* .output() returns once the child has exited; if !output.status.success()
WaitInline(i) ==
    /\ pc[i] = "wait"
    /\ transport = "inline"
    /\ epc[i] = "exited"
    /\ IF ~ success(output[i])
         THEN Return(i, Err(Msg("Python engine error: ", output[i].stderr)))
       ELSE Goto(i, "decode")
    /\ UNCHANGED <<transport, scriptExists, sequential, cancelRequested, config, engine, files, epc, cfgRead,
                   catRead, launched, created>>

\* the reply is taken from a buffer all invocations share
Decode_shared(i) ==
    /\ pc[i] = "decode"
    /\ LET r == from_str(output[1].stdout) IN
         IF ~ r.ok
           THEN Return(i, Err(Msg("Failed to parse engine output: ", "Raw")))
         ELSE IF r.value.error # None
           THEN Return(i, Err(Msg(r.value.error[1], "")))
         ELSE Return(i, Ok(r.value))
    /\ UNCHANGED <<transport, scriptExists, sequential, cancelRequested, config, engine, files, epc, cfgRead,
                   catRead, launched, created>>

\* serde_json::from_str(&stdout)?; if let Some(err) = result.error; Ok(result)
Decode(i) ==
    /\ pc[i] = "decode"
    /\ LET r == from_str(output[i].stdout) IN
         IF ~ r.ok
           THEN Return(i, Err(Msg("Failed to parse engine output: ", "Raw")))
         ELSE IF r.value.error # None
           THEN Return(i, Err(Msg(r.value.error[1], "")))
         ELSE Return(i, Ok(r.value))
    /\ UNCHANGED <<transport, scriptExists, sequential, cancelRequested, config, engine, files, epc, cfgRead,
                   catRead, launched, created>>

\* ----------------------------------------------------- engine behaviours
\* What the engine run of one invocation does is an input of the model: its
\* exit code, the reply it produces (on the output path or on standard
\* output) and its standard error.
Eng(code, body) ==
    [code |-> code, body |-> body, stderr |-> IF code = 0 THEN "" ELSE "catalog empty",
     hangs |-> FALSE]
\* an engine run that reads its input and then computes forever
Hang == [code |-> 0, body |-> Empty, stderr |-> "", hangs |-> TRUE]

\* A logical invoice line, and its two wire dialects (inline build)
Lines ==
    {[desc |-> "Widget", qty |-> 2, rate |-> 25, amount |-> 50],
     [desc |-> "Gadget", qty |-> 1, rate |-> 10, amount |-> 10]}
DialectA(l) == [name |-> l.desc, quantity |-> l.qty, rate |-> l.rate, amount |-> l.amount]
DialectB(l) == [item |-> l.desc, qty |-> l.qty, rate |-> l.rate, amount |-> l.amount]
\* the line format of the file build
Dialect2(l) ==
    [sku |-> "SKU1", name |-> l.desc, qty |-> l.qty, rate |-> l.rate, tax |-> 0,
     total |-> l.amount]

InvoiceJson(items) ==
    [invoice_type |-> "gst", invoice_number |-> "INV-1", date |-> "2025-01-01",
     customer |-> "c1", items |-> items, subtotal |-> 50, total |-> 50]
InvoiceJson2(items) ==
    [invoice_id |-> "INV-1", date |-> "2025-01-01", customer_name |-> "c1",
     items |-> items, tax_breakdown |-> "none", grand_total |-> 50]

ReplyJson(status, error, invoices) ==
    IF error = None THEN Json([status |-> status, invoices |-> invoices])
    ELSE Json([status |-> status, invoices |-> invoices, error |-> error[1]])

Statuses == {"success", "error"}
Errors == {None, Some(""), Some("boom")}

\* invoice lists of a reply, per build
ItemLists(t) ==
    IF t = "file"
      THEN {<<Dialect2(l)>> : l \in Lines}
           \cup {<<[name |-> "Widget", qty |-> 2]>>}
      ELSE {<<DialectA(l)>> : l \in Lines} \cup {<<DialectB(l)>> : l \in Lines}
           \cup {<<[name |-> "Widget", item |-> "Gadget", quantity |-> 2, qty |-> 1,
                    rate |-> 25, amount |-> 50]>>,
                 <<[item |-> "Widget", qty |-> 2, rate |-> 25, amount |-> 50,
                    sku |-> "SKU1", tax |-> 5, total |-> 55]>>,
                 <<[name |-> "", item |-> "Widget", quantity |-> 2, qty |-> 2,
                    rate |-> 25, amount |-> 50]>>,
                 <<[name |-> "Widget", quantity |-> 2]>>}
InvoiceLists(t) ==
    {<<>>} \cup {<<IF t = "file" THEN InvoiceJson2(it) ELSE InvoiceJson(it)>> :
                    it \in ItemLists(t)}

Bodies(t) ==
    {Empty, Garbage, Json([status |-> "success"])}
    \cup {ReplyJson(s, e, inv) : s \in Statuses, e \in Errors, inv \in InvoiceLists(t)}

Engines(t) == {Eng(code, b) : code \in {0, 1}, b \in Bodies(t)} \cup {Hang}

OkBody(t, items) ==
    ReplyJson("success", None,
              <<IF t = "file" THEN InvoiceJson2(items) ELSE InvoiceJson(items)>>)
Widget == [desc |-> "Widget", qty |-> 2, rate |-> 25, amount |-> 50]
NormalEngine(t) ==
    Eng(0, OkBody(t, <<IF t = "file" THEN Dialect2(Widget) ELSE DialectA(Widget)>>))

\* the engine behaviours of concurrent runs
SmallEngines(t) ==
    IF t = "file"
      THEN {NormalEngine(t), Eng(1, Empty), Eng(0, Empty),
            Eng(1, OkBody(t, <<Dialect2(Widget)>>))}
      ELSE {NormalEngine(t), Eng(0, OkBody(t, <<DialectB(Widget)>>)), Eng(1, Empty)}

\* ------------------------------------------------------------------- Init
Transports == {"file", "inline"}

\* n invocations are about to be issued; nothing has run yet and the temp
\* directory holds none of the three paths.
Start(n) ==
    /\ pc = [i \in Procs |-> IF i <= n THEN "idle" ELSE "unused"]
    /\ files = [p \in Paths |-> Absent]
    /\ epc = [i \in Procs |-> "none"]
    /\ cfgRead = [i \in Procs |-> None]
    /\ catRead = [i \in Procs |-> None]
    /\ output = [i \in Procs |-> NoOutput]
    /\ outputJson = [i \in Procs |-> None]
    /\ launched = [i \in Procs |-> 0]
    /\ created = [i \in Procs |-> {}]
    /\ delivered = [i \in Procs |-> <<>>]
    /\ cancelRequested = [i \in Procs |-> FALSE]

\* one invocation, every request, a well-behaved engine
InitValidate ==
    /\ transport \in Transports
    /\ sequential = FALSE
    /\ scriptExists \in BOOLEAN
    /\ config \in {[i \in Procs |-> IF i = 1 THEN c ELSE ValidRequest] : c \in Requests}
    /\ engine = [i \in Procs |-> NormalEngine(transport)]
    /\ Start(1)

\* one invocation, a valid request, every engine behaviour
InitDecode ==
    /\ transport \in Transports
    /\ sequential = FALSE
    /\ scriptExists = TRUE
    /\ config = [i \in Procs |-> ValidRequest]
    /\ engine \in {[i \in Procs |-> IF i = 1 THEN e ELSE NormalEngine(transport)] :
                      e \in Engines(transport)}
    /\ Start(1)

\* NInv invocations in flight, each with its own valid request
InitConcurrent ==
    /\ transport \in Transports
    /\ sequential = FALSE
    /\ scriptExists = TRUE
    /\ config = [i \in Procs |-> [ValidRequest EXCEPT !.revenue_target = i]]
    /\ engine \in [Procs -> SmallEngines(transport)]
    /\ Start(NInv)

\* one invocation, the five validated fields valid, every date and rate
InitBounds ==
    /\ transport \in Transports
    /\ sequential = FALSE
    /\ scriptExists = TRUE
    /\ config \in {[i \in Procs |-> IF i = 1 THEN c ELSE ValidRequest] : c \in BoundRequests}
    /\ engine = [i \in Procs |-> NormalEngine(transport)]
    /\ Start(1)

\* NInv invocations of the file build, issued strictly one after another
SequentialEngines == SmallEngines("file") \cup {Eng(0, Garbage)}
InitSequential ==
    /\ transport = "file"
    /\ sequential = TRUE
    /\ scriptExists = TRUE
    /\ config = [i \in Procs |-> [ValidRequest EXCEPT !.revenue_target = i]]
    /\ engine \in [Procs -> SequentialEngines]
    /\ Start(NInv)

Init == InitValidate \/ InitDecode \/ InitBounds \/ InitConcurrent \/ InitSequential

\* The caller gives up on an invocation whose child does not exit and asks
\* for it to be cancelled. run_simulation takes no cancellation signal:
\* nothing in it reads the request.
Cancel(i) ==
    /\ pc[i] = "wait"
    /\ epc[i] # "exited"
    /\ engine[i].hangs
    /\ ~ cancelRequested[i]
    /\ cancelRequested' = [cancelRequested EXCEPT ![i] = TRUE]
    /\ UNCHANGED <<transport, scriptExists, sequential, config, engine, pc, files, epc,
                   cfgRead, catRead, output, outputJson, launched, created, delivered>>

Step(i) ==
    \/ Call(i) \/ Cancel(i)
    \/ WriteConfig(i) \/ WriteCatalog(i) \/ LaunchFile(i)
    \/ EngineReadConfig(i) \/ EngineReadCatalog(i) \/ EngineWriteOutput(i)
    \/ WaitFile(i) \/ ReadOutput(i) \/ Parse(i)
    \/ RemoveConfig(i) \/ RemoveCatalog(i) \/ RemoveOutput(i)
    \/ Validate(i) \/ CheckScript(i) \/ LaunchInline(i)
    \/ EngineRun(i) \/ WaitInline(i) \/ Decode(i)

Next == \E i \in Procs : Step(i)

Spec == Init /\ [][Next]_vars

\* The async runtime and the operating system keep scheduling every
\* invocation and every child process that can take a step.
FairSpec == Spec /\ \A i \in Procs : WF_vars(Step(i))

\* ================================================================= claims
Done(i) == pc[i] = "done"
Outcome(i) == delivered[i][1]
Started(i) == pc[i] \notin {"unused", "idle"}

\* The five validated constraints as the interface states them, numbered in
\* the documented order, and the message that names each.
Violated(c) ==
    {k \in 1..5 :
        \/ k = 1 /\ ~ (c.revenue_target > 0)
        \/ k = 2 /\ ~ (c.min_invoice_amount > 0 /\ c.max_invoice_amount > 0)
        \/ k = 3 /\ ~ (c.min_items > 0 /\ c.max_items > 0)
        \/ k = 4 /\ ~ (c.min_invoice_amount <= c.max_invoice_amount)
        \/ k = 5 /\ ~ (c.min_items <= c.max_items)}
CheckMessage(k) ==
    CASE k = 1 -> "Revenue target must be positive"
      [] k = 2 -> "Invoice amounts must be positive"
      [] k = 3 -> "Item counts must be positive"
      [] k = 4 -> "Minimum invoice amount cannot exceed maximum"
      [] k = 5 -> "Minimum items cannot exceed maximum"
Lowest(S) == CHOOSE k \in S : \A m \in S : k <= m
ValidationError(k) == Err(Msg(CheckMessage(k), ""))

\* C1: with the file-relay transport, under every interleaving, the engine
\* of an invocation reads the config and the catalog that this invocation
\* wrote, and the invocation reads back the output its own engine wrote.
C1_OwnData ==
    transport = "file" =>
        \A i \in Procs :
            /\ cfgRead[i] # None => cfgRead[i][1] = Content(to_string(config[i]), i)
            /\ catRead[i] # None => catRead[i][1].writer = i
            /\ outputJson[i] # None => outputJson[i][1].writer = i

\* C2: with the file-relay transport two distinct invocations either use
\* pairwise different paths, or are never both between their first write to
\* a temp path and their last read or removal of it.
InWindow(i) ==
    pc[i] \in {"write_catalog", "launch", "wait", "read_output", "parse",
               "remove_config", "remove_catalog", "remove_output"}
C2_UniqueOrSerialized ==
    transport = "file" =>
        \A i, j \in Procs :
            i # j => \/ PathsOf(i) \cap PathsOf(j) = {}
                     \/ ~ (InWindow(i) /\ InWindow(j))

\* C3: with the file-relay transport, once an invocation has returned, on
\* whatever exit path, none of the temp artifacts it created still exists.
C3_Released ==
    transport = "file" =>
        \A i \in Procs :
            Done(i) => \A p \in created[i] : ~ (files[p].exists /\ files[p].writer = i)

\* C4: a request that violates a validated constraint gets the matching
\* validation error, and no engine process is launched for it.
C4_InvalidNeverLaunches ==
    \A i \in Procs :
        Violated(config[i]) # {} =>
            /\ launched[i] = 0
            /\ Done(i) => \E k \in Violated(config[i]) : Outcome(i) = ValidationError(k)

\* C5: validation runs its five checks in the documented order and stops at
\* the first failure: the error returned is that of the lowest-numbered
\* violated check, the five messages are pairwise distinct, and a request
\* that violates no check passes validation.
ValidationErrors == {ValidationError(k) : k \in 1..5}
C5_ValidationOrder ==
    /\ \A j, k \in 1..5 : j # k => CheckMessage(j) # CheckMessage(k)
    /\ transport = "inline" =>
         \A i \in Procs :
            Started(i) /\ pc[i] # "validate" =>
                IF Violated(config[i]) = {}
                  THEN ~ (Done(i) /\ Outcome(i) \in ValidationErrors)
                  ELSE Done(i) /\ Outcome(i) = ValidationError(Lowest(Violated(config[i])))
\* a request violating checks 4 and 5 at once has been rejected
C5_Witness ==
    \E i \in Procs :
        /\ transport = "inline"
        /\ Violated(config[i]) = {4, 5}
        /\ Done(i)
\* a request violating no check has gone past validation
C5_WitnessValid ==
    \E i \in Procs :
        /\ transport = "inline"
        /\ Violated(config[i]) = {}
        /\ pc[i] = "check_script"

\* C6: when the engine child ends with a non-zero exit status the invocation
\* returns an error, whatever is on standard output or in the output file;
\* the reply is never decoded.
C6_ExitCodeDominates ==
    \A i \in Procs :
        epc[i] = "exited" /\ output[i].code # 0 =>
            /\ pc[i] \in {"wait", "done"}
            /\ outputJson[i] = None
            /\ Done(i) => Outcome(i).tag = "Err"
\* an engine that printed a well-formed success reply and exited non-zero
C6_Witness ==
    \E i \in Procs :
        /\ transport = "inline"
        /\ Done(i)
        /\ epc[i] = "exited"
        /\ output[i].code # 0
        /\ from_str(output[i].stdout).ok
        /\ from_str(output[i].stdout).value.status = "success"
        /\ from_str(output[i].stdout).value.error = None
\* the same with the file-relay transport: the reply sits in the output file
C6_WitnessFile ==
    \E i \in Procs :
        /\ transport = "file"
        /\ Done(i)
        /\ epc[i] = "exited"
        /\ output[i].code # 0
        /\ files[output_path(i)].exists
        /\ from_str2(files[output_path(i)].data).ok

\* C7: when the engine script does not exist, a (valid) request fails with
\* the engine-not-found error naming the path, no child process is launched
\* and no temp artifact is created.
EngineNotFound == Err(Msg("Python engine not found at: ", ScriptPath))
C7_EngineNotFound ==
    \A i \in Procs :
        ~ scriptExists /\ Violated(config[i]) = {} =>
            /\ launched[i] = 0
            /\ created[i] = {}
            /\ Done(i) => Outcome(i) = EngineNotFound

\* C8: a decoded reply whose status indicates failure, or that carries a
\* non-empty error message, makes the invocation return an error (the
\* message verbatim); a success value is returned only for replies whose
\* status is success and whose error message is absent or empty.
C8_EngineReportedError ==
    \A i \in Procs :
        Done(i) =>
            /\ Outcome(i).tag = "Ok" =>
                  /\ Outcome(i).value.status = "success"
                  /\ Outcome(i).value.error \in {None, Some("")}
            /\ ( /\ transport = "inline"
                 /\ epc[i] = "exited"
                 /\ output[i].code = 0
                 /\ from_str(output[i].stdout).ok ) =>
                  LET r == from_str(output[i].stdout).value IN
                    /\ r.status # "success" => Outcome(i).tag = "Err"
                    /\ r.error \notin {None, Some("")} =>
                          Outcome(i) = Err(Msg(r.error[1], ""))

\* C9: every invocation delivers exactly one outcome to its caller: never
\* two, and every started invocation eventually delivers one.
C9_ExactlyOneOutcome ==
    /\ [](\A i \in Procs : Len(delivered[i]) <= 1)
    /\ \A i \in Procs : Started(i) ~> (Len(delivered[i]) = 1)

\* The safety half of C9 alone: no invocation ever delivers two outcomes,
\* and an invocation that has returned has delivered exactly one.
C9_AtMostOne ==
    \A i \in Procs :
        /\ Len(delivered[i]) <= 1
        /\ Done(i) <=> Len(delivered[i]) = 1

\* C10: a reply that expresses a logical invoice line in Dialect A and a
\* reply that expresses the same line in Dialect B decode to identical
\* invoice lines.
C10_DialectsAgree ==
    transport = "inline" =>
        \A i, j \in Procs : \A l \in Lines :
            ( /\ Done(i) /\ Outcome(i).tag = "Ok"
              /\ Done(j) /\ Outcome(j).tag = "Ok"
              /\ engine[i].body = OkBody("inline", <<DialectA(l)>>)
              /\ engine[j].body = OkBody("inline", <<DialectB(l)>>) ) =>
                Outcome(i).value.invoices[1].items = Outcome(j).value.invoices[1].items

\* the reply object an engine printed, and the lines in it
RawInvoices(i) == engine[i].body.obj.invoices
Without(o, f) == [g \in DOMAIN o \ {f} |-> o[g]]
FirstNonEmpty(a, b, empty) == IF a # empty THEN a ELSE b

\* C11: when a line of the reply carries both aliases of a concept, the
\* decoded line's value for the concept is the non-empty one that comes
\* first in precedence (name over item, quantity over qty); when the two
\* disagree the first wins and the result lets the caller see the
\* discrepancy (it differs from the result of the line without the losing
\* alias).
C11_AliasPrecedence ==
    transport = "inline" =>
        \A i \in Procs :
            (Done(i) /\ Outcome(i).tag = "Ok" /\ Outcome(i).value.status = "success") =>
                \A n \in 1..Len(RawInvoices(i)) :
                    \A k \in 1..Len(RawInvoices(i)[n].items) :
                        LET o == RawInvoices(i)[n].items[k]
                            l == Outcome(i).value.invoices[n].items[k]
                        IN  /\ {"name", "item"} \subseteq DOMAIN o =>
                                /\ l.name = FirstNonEmpty(o.name, o.item, "")
                                /\ o.name # o.item => l # InvoiceItem(Without(o, "item"))
                            /\ {"quantity", "qty"} \subseteq DOMAIN o =>
                                /\ l.quantity = o.quantity
                                /\ o.quantity # o.qty => l # InvoiceItem(Without(o, "qty"))

\* A reply that lacks nothing but optional fields of its lines.
CompleteReply(p) ==
    /\ p.kind = "json"
    /\ {"status", "invoices"} \subseteq DOMAIN p.obj
    /\ \A n \in 1..Len(p.obj.invoices) :
        /\ {"invoice_type", "invoice_number", "date", "customer", "items", "subtotal",
            "total"} \subseteq DOMAIN p.obj.invoices[n]
        /\ \A k \in 1..Len(p.obj.invoices[n].items) :
            {"rate", "amount"} \subseteq DOMAIN p.obj.invoices[n].items[k]
ParseError == Err(Msg("Failed to parse engine output: ", "Raw"))
OptionalOmitted(o) == {"name", "item", "quantity", "qty", "sku", "tax", "total"} \ DOMAIN o

\* Decoding a complete reply of an engine that exited 0 does not fail, and
\* in the returned lines an omitted alias holds "" or 0 and an omitted sku,
\* tax, total holds noSku, noTax, noTotal.
OmissionsDefault(noSku, noTax, noTotal) ==
    transport = "inline" =>
        \A i \in Procs :
            (Done(i) /\ launched[i] = 1 /\ output[i].code = 0
                     /\ CompleteReply(output[i].stdout)) =>
                /\ Outcome(i) # ParseError
                /\ Outcome(i).tag = "Ok" =>
                    \A n \in 1..Len(RawInvoices(i)) :
                        \A k \in 1..Len(RawInvoices(i)[n].items) :
                            LET o == RawInvoices(i)[n].items[k]
                                l == Outcome(i).value.invoices[n].items[k]
                            IN  /\ "name" \notin DOMAIN o => l.name = ""
                                /\ "item" \notin DOMAIN o => l.item = ""
                                /\ "quantity" \notin DOMAIN o => l.quantity = 0
                                /\ "qty" \notin DOMAIN o => l.qty = 0
                                /\ "sku" \notin DOMAIN o => l.sku = noSku
                                /\ "tax" \notin DOMAIN o => l.tax = noTax
                                /\ "total" \notin DOMAIN o => l.total = noTotal

\* C12: for every reply in which a line omits an optional field (sku, tax,
\* the computed total, or the unused alias of a pair), decoding does not
\* fail because of the omission and the returned line holds the zero value
\* of the field's type: "" for a text, 0 for a number, so tax 0 for a
\* Dialect B line without tax.
C12_OmittedIsZero == OmissionsDefault(Some(""), Some(0), Some(0))

\* What the decoder does instead: decoding does not fail because of the
\* omission; an omitted alias holds "" or 0, and an omitted sku, tax or
\* total is None (absent from the returned line), not 0.
C12_OmittedIsNone == OmissionsDefault(None, None, None)

\* a Dialect B line without tax has been decoded and returned
C12_Witness ==
    \E i \in Procs :
        /\ transport = "inline" /\ Done(i) /\ Outcome(i).tag = "Ok"
        /\ Len(RawInvoices(i)) = 1 /\ Len(RawInvoices(i)[1].items) = 1
        /\ OptionalOmitted(RawInvoices(i)[1].items[1]) = {"name", "quantity", "sku", "tax", "total"}
        /\ Outcome(i).value.invoices[1].items[1].tax = None

\* The bounds the interface declares beyond the five validated
\* constraints: the date range is ordered and the repeat rate, when given,
\* is a fraction.
DateRangeOrdered(c) == c.start_date <= c.end_date
RepeatRateInRange(c) ==
    c.customer_repeat_rate # None =>
        (0 <= c.customer_repeat_rate[1] /\ c.customer_repeat_rate[1] <= 1)

\* C13: no engine process is launched for a request that violates any
\* declared bound: the five validated constraints, start_date <= end_date,
\* and customer_repeat_rate within [0, 1] when present.
C13_BoundsBeforeLaunch ==
    transport = "inline" =>
        \A i \in Procs :
            ( \/ Violated(config[i]) # {}
              \/ ~ DateRangeOrdered(config[i])
              \/ ~ RepeatRateInRange(config[i]) ) => launched[i] = 0

\* C14: within one invocation the engine is launched at most once: a child
\* exists only after the one launch, and in no state, the states after a
\* failure included, has the invocation launched a second time.
C14_LaunchedAtMostOnce ==
    \A i \in Procs :
        /\ launched[i] <= 1
        /\ launched[i] = 0 <=> epc[i] = "none"

\* an invocation has launched its engine, failed after that and returned
C14_Witness ==
    \E i \in Procs :
        Done(i) /\ Outcome(i).tag = "Err" /\ launched[i] = 1 /\ output[i].code # 0

\* C15: once the engine has been launched, run_simulation does not go on,
\* and does not return, before the child has exited: at the moment of
\* return no child it started is still running.
C15_WaitsForChild ==
    \A i \in Procs :
        (launched[i] > 0 /\ pc[i] # "wait") => epc[i] = "exited"

\* an invocation has launched its engine and returned
C15_Witness ==
    \E i, j \in Procs :
        /\ Done(i) /\ launched[i] = 1 /\ epc[i] = "exited"
        /\ pc[j] = "wait" /\ epc[j] # "exited"

\* C16: when the caller asks for an invocation to be cancelled while its
\* engine child is running, the child is terminated and the invocation
\* returns an error: the caller is not left suspended by an engine that
\* does not exit, and no child remains running afterwards.
C16_CancelTerminates ==
    \A i \in Procs :
        cancelRequested[i] ~>
            (Done(i) /\ Outcome(i).tag = "Err" /\ epc[i] = "exited")

\* The outcomes an inline invocation has when it runs alone with request c
\* and engine behaviour e: the spawn may fail; otherwise the outcome is
\* determined by c, the presence of the script and e.
LaunchError == Err(Msg("Failed to execute Python engine: ", "io error"))
EngineError(e) == Err(Msg("Python engine error: ", e.stderr))
AloneAfterLaunch(e) ==
    IF e.code # 0 THEN EngineError(e)
    ELSE IF ~ from_str(e.body).ok THEN ParseError
    ELSE IF from_str(e.body).value.error # None
        THEN Err(Msg(from_str(e.body).value.error[1], ""))
    ELSE Ok(from_str(e.body).value)
AloneOutcomes(c, e) ==
    IF Violated(c) # {} THEN {ValidationError(Lowest(Violated(c)))}
    ELSE IF ~ scriptExists THEN {EngineNotFound}
    ELSE {LaunchError, AloneAfterLaunch(e)}

\* C17: with the inline transport concurrent invocations are independent:
\* no invocation creates, modifies or removes a file, each child receives
\* the payloads of its own invocation, and under every interleaving the
\* outcome of each invocation is one it has when run alone with the same
\* request, catalog and engine behaviour.
C17_Independent ==
    transport = "inline" =>
        /\ \A p \in Paths : files[p] = Absent
        /\ \A i \in Procs :
            /\ created[i] = {}
            /\ cfgRead[i] # None => cfgRead[i][1] = Content(to_string(config[i]), i)
            /\ catRead[i] # None => catRead[i][1] = Content(to_string(Catalog), i)
            /\ Done(i) => Outcome(i) \in AloneOutcomes(config[i], engine[i])

\* two inline invocations issued together have both returned, with
\* different results
C17_Witness ==
    \E i, j \in Procs :
        /\ transport = "inline" /\ ~ sequential /\ i # j
        /\ Done(i) /\ Outcome(i).tag = "Ok"
        /\ Done(j) /\ Outcome(j).tag = "Ok"
        /\ Outcome(i) # Outcome(j)

\* C18: in the file build, with invocations issued strictly one after
\* another, the reply an invocation reads back was written by its own engine
\* run: an output file left behind by an earlier invocation is never read,
\* and never returned as the result of a later invocation whose engine
\* exited 0 without writing output.
C18_FreshOutput ==
    (transport = "file" /\ sequential) =>
        \A i \in Procs :
            /\ outputJson[i] # None => outputJson[i][1].writer = i
            /\ (Done(i) /\ launched[i] = 1 /\ output[i].code = 0
                        /\ engine[i].body = Empty) => Outcome(i).tag = "Err"

\* C19: in the inline build, when several failure conditions hold at once
\* the error returned is that of the earliest stage in the order
\* validation, engine not found, launch failure, non-zero exit, decode
\* failure, engine-reported error, and no later stage runs after an earlier
\* one failed: in particular an invalid request with a missing script
\* yields the validation error and launches nothing.
C19_EarliestStageWins ==
    transport = "inline" =>
        \A i \in Procs :
            Done(i) =>
                LET c == config[i]
                    out == output[i]
                IN  /\ Violated(c) # {} =>
                        Outcome(i) \in ValidationErrors /\ launched[i] = 0
                    /\ (Violated(c) = {} /\ ~ scriptExists) =>
                        Outcome(i) = EngineNotFound /\ launched[i] = 0
                    /\ (Violated(c) = {} /\ scriptExists /\ launched[i] = 0) =>
                        Outcome(i) = LaunchError
                    /\ (launched[i] = 1 /\ out.code # 0) =>
                        Outcome(i) = Err(Msg("Python engine error: ", out.stderr))
                    /\ (launched[i] = 1 /\ out.code = 0 /\ ~ CompleteReply(out.stdout)) =>
                        Outcome(i) = ParseError
                    /\ (launched[i] = 1 /\ out.code = 0 /\ CompleteReply(out.stdout)) =>
                        IF "error" \in DOMAIN out.stdout.obj
                          THEN Outcome(i) = Err(Msg(out.stdout.obj.error, ""))
                        ELSE Outcome(i).tag = "Ok"
                    /\ launched[i] = 1 => (Violated(c) = {} /\ scriptExists)

\* an invalid request met a missing script and the validation error was
\* returned
C19_Witness ==
    \E i \in Procs :
        /\ transport = "inline" /\ Done(i)
        /\ Violated(config[i]) # {} /\ ~ scriptExists
        /\ Outcome(i) \in ValidationErrors

\* an engine exited non-zero after printing a reply that carries an error
\* field, and the exit error was returned
C19_WitnessExit ==
    \E i \in Procs :
        /\ transport = "inline" /\ Done(i) /\ launched[i] = 1
        /\ output[i].code # 0 /\ CompleteReply(output[i].stdout)
        /\ "error" \in DOMAIN output[i].stdout.obj

====
